---- MODULE Spec2Model ----
(***************************************************************************)
(* Model of src/backend.py (bin-extractor): the signature carver           *)
(* extract_binary_file and the upload / create_zip / download_zip          *)
(* handlers working on the shared volume.                                  *)
(*                                                                         *)
(* Byte offsets are 0-based as in the Python source; TLA+ sequences are    *)
(* 1-based, so byte i of b is b[i+1].                                      *)
(***************************************************************************)
EXTENDS Integers, Sequences, FiniteSets, TLC

(***************************************************************************)
(* Bounds of the model.                                                    *)
(***************************************************************************)
\* longest input byte sequence the carver is run on
MaxLen == 9
\* longest list of selection indices in an archive request
MaxSel == 2

(***************************************************************************)
(* Numeric literals of extract_binary_file.  The source values are far     *)
(* beyond explicit-state enumeration, so each is scaled down; the order    *)
(* of the source values (signature length < margin <= hash window <        *)
(* default chunk < fallback size < window cap) is kept.                    *)
(***************************************************************************)
\* line 42: range(len(file_content) - 10); source value 10
ScanMargin == 3
\* line 46: file_content[i:i+100]; source value 100
HashWindow == 3
\* line 49: end_pos = i + 1024; source value 1024
DefaultChunk == 4
\* line 50: min(i + 10485760, len(file_content)); source value 10485760
MaxFileSpan == 7
\* line 59: min(i + 1024*1024, len(file_content)); source value 1048576
FallbackSize == 6

\* the bytes inputs are drawn from: 'B', 'M', 'Z'.  Over this alphabet the
\* prefixes b'BM' (bmp) and b'MZ' (exe) occur, also overlapping ("BMZ").
Alphabet == {66, 77, 90}

Min(a, b) == IF a < b THEN a ELSE b

\* all byte sequences over Alphabet of length 0..n
SeqsUpTo(n) == UNION {[1..k -> Alphabet] : k \in 0..n}

\* the catalog with the prefix b'BM' entered a second time, as 'dib'
signatures_BmTwice ==
  << [sig |-> <<137, 80, 78, 71, 13, 10, 26, 10>>, ext |-> "png", sig_len |-> 8],
     [sig |-> <<71, 73, 70, 56, 57, 97>>,          ext |-> "gif", sig_len |-> 6],
     [sig |-> <<71, 73, 70, 56, 55, 97>>,          ext |-> "gif", sig_len |-> 6],
     [sig |-> <<255, 216, 255>>,                   ext |-> "jpg", sig_len |-> 3],
     [sig |-> <<80, 75, 3, 4>>,                    ext |-> "zip", sig_len |-> 4],
     [sig |-> <<37, 80, 68, 70>>,                  ext |-> "pdf", sig_len |-> 4],
     [sig |-> <<77, 90>>,                          ext |-> "exe", sig_len |-> 2],
     [sig |-> <<31, 139>>,                         ext |-> "gz",  sig_len |-> 2],
     [sig |-> <<66, 77>>,                          ext |-> "bmp", sig_len |-> 2],
     [sig |-> <<66, 77>>,                          ext |-> "dib", sig_len |-> 2],
     [sig |-> <<82, 73, 70, 70>>,                  ext |-> "wav", sig_len |-> 4] >>

(***************************************************************************)
(* The signature catalog, in the insertion order of the dict.              *)
(***************************************************************************)
signatures ==
  << [sig |-> <<137, 80, 78, 71, 13, 10, 26, 10>>, ext |-> "png", sig_len |-> 8],
     [sig |-> <<71, 73, 70, 56, 57, 97>>,          ext |-> "gif", sig_len |-> 6],
     [sig |-> <<71, 73, 70, 56, 55, 97>>,          ext |-> "gif", sig_len |-> 6],
     [sig |-> <<255, 216, 255>>,                   ext |-> "jpg", sig_len |-> 3],
     [sig |-> <<80, 75, 3, 4>>,                    ext |-> "zip", sig_len |-> 4],
     [sig |-> <<37, 80, 68, 70>>,                  ext |-> "pdf", sig_len |-> 4],
     [sig |-> <<77, 90>>,                          ext |-> "exe", sig_len |-> 2],
     [sig |-> <<31, 139>>,                         ext |-> "gz",  sig_len |-> 2],
     [sig |-> <<66, 77>>,                          ext |-> "bmp", sig_len |-> 2],
     [sig |-> <<82, 73, 70, 70>>,                  ext |-> "wav", sig_len |-> 4] >>

\* Python slice b[lo:hi] for 0 <= lo: clamped at len(b), empty when lo >= hi
Slice(b, lo, hi) == SubSeq(b, lo + 1, Min(hi, Len(b)))

\* hashlib.md5(x).hexdigest()[:8], idealised as collision-free: the digest
\* is a value determined by exactly the hashed bytes
md5_hex8(x) == [md5 |-> x]

\* NextSigAt with the inner loop left after its first entry
NextSigAt_FirstEntryOnly(b, j) ==
  Slice(b, j, j + Len(signatures[1].sig)) = signatures[1].sig

\* line 52: some catalog prefix equals file_content[j:j+len(next_sig)]
NextSigAt(b, j) ==
  \E k \in 1..Len(signatures) :
     Slice(b, j, j + Len(signatures[k].sig)) = signatures[k].sig

\* lines 50-56: the forward scan for the next signature, from position j,
\* with the current value of end_pos
RECURSIVE ScanEnd(_, _, _, _)
ScanEnd(b, i, j, end_pos) ==
  IF j >= Min(i + MaxFileSpan, Len(b))
    THEN end_pos
    ELSE LET e == IF NextSigAt(b, j) THEN j ELSE end_pos
         IN  IF e # i + DefaultChunk THEN e ELSE ScanEnd(b, i, j + 1, e)

\* FindEnd falling back to the window cap instead of the fallback size
FindEnd_WindowCap(b, i, sig_len) ==
  LET e == ScanEnd(b, i, i + sig_len, i + DefaultChunk)
  IN  IF e = i + DefaultChunk THEN Min(i + MaxFileSpan, Len(b)) ELSE e

\* FindEnd with the forward scan started at the match itself
FindEnd_ScanFromStart(b, i, sig_len) ==
  LET e == ScanEnd(b, i, i, i + DefaultChunk)
  IN  IF e = i + DefaultChunk THEN Min(i + FallbackSize, Len(b)) ELSE e

\* lines 49-59: end_pos of the file that starts at i with a prefix of
\* length sig_len
FindEnd(b, i, sig_len) ==
  LET e == ScanEnd(b, i, i + sig_len, i + DefaultChunk)
  IN  IF e = i + DefaultChunk THEN Min(i + FallbackSize, Len(b)) ELSE e

\* CarvedRecord with the offset taken after the matched prefix
CarvedRecord_OffsetAfterSig(b, i, k) ==
  LET end_pos   == FindEnd(b, i, signatures[k].sig_len)
      file_data == Slice(b, i, end_pos)
  IN  [name   |-> [stem |-> "extracted_",
                   id   |-> md5_hex8(Slice(b, i, i + HashWindow)),
                   ext  |-> signatures[k].ext],
       size   |-> Len(file_data),
       offset |-> i + signatures[k].sig_len,
       data   |-> file_data,
       type   |-> signatures[k].ext]

\* lines 46, 61-68: the dict appended for a match of catalog entry k at i
CarvedRecord(b, i, k) ==
  LET end_pos   == FindEnd(b, i, signatures[k].sig_len)
      file_data == Slice(b, i, end_pos)
  IN  [name   |-> [stem |-> "extracted_",
                   id   |-> md5_hex8(Slice(b, i, i + HashWindow)),
                   ext  |-> signatures[k].ext],
       size   |-> Len(file_data),
       offset |-> i,
       data   |-> file_data,
       type   |-> signatures[k].ext]

\* lines 43-68: the inner loop over the catalog at offset i, from entry k
RECURSIVE ScanCatalog(_, _, _, _)
ScanCatalog(b, i, k, files) ==
  IF k > Len(signatures)
    THEN files
    ELSE IF Slice(b, i, i + signatures[k].sig_len) = signatures[k].sig
           THEN ScanCatalog(b, i, k + 1, Append(files, CarvedRecord(b, i, k)))
           ELSE ScanCatalog(b, i, k + 1, files)

\* line 42: the outer loop, for i in range(len(file_content) - 10)
RECURSIVE ScanOffsets(_, _, _)
ScanOffsets(b, i, files) ==
  IF i >= Len(b) - ScanMargin
    THEN files
    ELSE ScanOffsets(b, i + 1, ScanCatalog(b, i, 1, files))

\* lines 72-78: the single record returned when nothing was found
FallbackRecord(b) ==
  [name   |-> [stem |-> "binary_data", id |-> md5_hex8(<<>>), ext |-> "bin"],
   size   |-> Len(b),
   offset |-> 0,
   data   |-> b,
   type   |-> "bin"]

\* extract_binary_file without the "if not files" fallback
extract_binary_file_NoFallback(file_content) ==
  ScanOffsets(file_content, 0, <<>>)

\* lines 20-80
extract_binary_file(file_content) ==
  LET files == ScanOffsets(file_content, 0, <<>>)
  IN  IF files = <<>> THEN <<FallbackRecord(file_content)>> ELSE files

(***************************************************************************)
(* The handlers: inputs and helpers.                                       *)
(***************************************************************************)
\* the contents clients upload: "BMZZZZ" carves to a bmp and an exe record,
\* "BMZ" is shorter than the scan margin and carves to the 'bin' fallback
SampleBlobs == {<<66, 77, 90, 90, 90, 90>>, <<66, 77, 90>>}

\* file.filename of an upload
FileNames == {"firmware.bin"}

\* the values a client puts into selected_files
IndexVals == {-3, -1, 0, 1}

\* the lists a client sends as selected_files
Selections == UNION {[1..k -> IndexVals] : k \in 0..MaxSel}

\* the clients that issue a create_zip request
Clients == {"c1"}

\* the clients of the service with concurrent requests
AllClients == {"c1", "c2"}

\* the lists the concurrent clients send as selected_files
ConcSelections == {<<0>>, <<1>>}

\* file_id of an upload with the first bytes only hashed
md5_hex_PrefixOnly(content) == [md5 |-> Slice(content, 0, HashWindow)]

\* line 104: hashlib.md5(content).hexdigest(), idealised as collision-free
md5_hex(content) == [md5 |-> content]

\* the file_id values a request can carry
FileIds == {md5_hex(c) : c \in SampleBlobs}

\* lines 123-131: the manifest entries, the records without their data
ManifestFiles(extracted_files) ==
  [n \in 1..Len(extracted_files) |->
     [name   |-> extracted_files[n].name,
      size   |-> extracted_files[n].size,
      offset |-> extracted_files[n].offset,
      type   |-> extracted_files[n].type]]

\* lines 118-132
Metadata(file_id, filename, content, extracted_files) ==
  [file_id         |-> file_id,
   original_name   |-> filename,
   size            |-> Len(content),
   extracted_count |-> Len(extracted_files),
   files           |-> ManifestFiles(extracted_files)]

\* line 189: Python list indexing list[k], defined for -len <= k < len
PyIndex(list, k) == IF k >= 0 THEN list[k + 1] ELSE list[Len(list) + k + 1]

\* ProgressValue counting the current item as already done
ProgressValue_OneBased(idx, total_files) == ((idx + 1) * 100) \div total_files

\* line 191: int((idx / total_files) * 100).  For total_files < 50 the
\* double arithmetic gives exactly the integer floor (first difference:
\* idx = 29, total_files = 50 gives 57).
ProgressValue(idx, total_files) == (idx * 100) \div total_files

\* ZIP_DEFLATED compression of an entry's bytes and its inverse
Deflate(data) == [deflated |-> data]
Inflate(c) == c.deflated

\* line 196: the entry zf.writestr(name, data) adds to the archive
ZipEntry(file_info) ==
  [filename |-> file_info.name, compressed |-> Deflate(file_info.data)]

\* length of a file name: 'extracted_' + 8 hex digits + '.' + ext, or
\* 'binary_data.bin'
NameLen(name) ==
  IF name.stem = "binary_data" THEN 15
  ELSE 19 + (IF name.ext = "gz" THEN 2 ELSE 3)

RECURSIVE ZipLen(_)
\* lines 205, 209: len(zip_buffer.getvalue()) of the closed archive: per
\* entry a local header and a central directory header, each with the
\* name, and the entry's bytes (taken at their raw length), then the end
\* record
ZipLen(zip) ==
  IF zip = <<>> THEN 22
  ELSE 30 + 46 + 2 * NameLen(zip[1].filename)
          + Len(Inflate(zip[1].compressed)) + ZipLen(Tail(zip))

(***************************************************************************)
(* State.                                                                  *)
(***************************************************************************)
VARIABLES
  input,      \* the byte sequence handed to the carver
  files,      \* the list the carver returned for input
  cpc,        \* "ready" before the call, "carved" after it
  vol_bin,    \* /data/{file_id}.bin : file_id -> bytes, for the files present
  vol_json,   \* /data/{file_id}.json: file_id -> metadata
  vol_zip,    \* /data/{file_id}.zip : file_id -> archive
  uploading,  \* uploads that have stored the .bin and not yet the .json
  rq,         \* per client: the state of its create_zip request
  up_resp,    \* the last response of upload_bin
  dl_resp     \* the last response of download_zip

vars == <<input, files, cpc, vol_bin, vol_json, vol_zip, uploading, rq,
          up_resp, dl_resp>>

carveVars == <<input, files, cpc>>
httpVars == <<up_resp, dl_resp>>
sysVars == <<vol_bin, vol_json, vol_zip, uploading, rq, up_resp, dl_resp>>

\* no response sent yet
NoResponse == [status |-> 0]

\* a function with empty domain: no file present
NoFiles == [x \in {} |-> x]

\* writing value v to the file of key k
Put(vol, k, v) == [x \in DOMAIN vol \cup {k} |-> IF x = k THEN v ELSE vol[x]]

EmptyMetadata == Metadata(md5_hex(<<>>), "", <<>>, <<>>)

\* a client with no request made
IdleRequest ==
  [pc               |-> "idle",
   file_id          |-> md5_hex(<<>>),
   selected_indices |-> <<>>,
   metadata         |-> EmptyMetadata,
   bin_content      |-> <<>>,
   extracted_files  |-> <<>>,
   idx              |-> 0,
   file_info        |-> FallbackRecord(<<>>),
   zip_buffer       |-> <<>>,
   events           |-> <<>>,
   trace            |-> <<>>]

SysInit ==
  /\ vol_bin = NoFiles
  /\ vol_json = NoFiles
  /\ vol_zip = NoFiles
  /\ uploading = {}
  /\ rq = [r \in AllClients |-> IdleRequest]
  /\ up_resp = NoResponse
  /\ dl_resp = NoResponse

\* the carver applied to every bounded input
CarveInit ==
  /\ input \in SeqsUpTo(MaxLen)
  /\ files = <<>>
  /\ cpc = "ready"
  /\ SysInit

Carve ==
  /\ cpc = "ready"
  /\ files' = extract_binary_file(input)
  /\ cpc' = "carved"
  /\ UNCHANGED input
  /\ UNCHANGED sysVars

CarveNext == Carve

CarveSpec == CarveInit /\ [][CarveNext]_vars

(***************************************************************************)
(* upload_bin                                                              *)
(***************************************************************************)
\* UploadNoFile with the absent file stored as an empty upload
UploadNoFile_StoresEmpty ==
  /\ up_resp' = [status |-> 400, body |-> [error |-> "No file provided"]]
  /\ vol_bin' = Put(vol_bin, md5_hex(<<>>), <<>>)
  /\ UNCHANGED <<vol_json, vol_zip, uploading, rq, carveVars, dl_resp>>

\* lines 94-98: the form holds no file
UploadNoFile ==
  /\ up_resp' = [status |-> 400, body |-> [error |-> "No file provided"]]
  /\ UNCHANGED <<vol_bin, vol_json, vol_zip, uploading, rq, carveVars, dl_resp>>

\* lines 101-111: the content is read and stored under its file_id
UploadStore(content, filename) ==
  /\ <<content, filename>> \notin uploading
  /\ vol_bin' = Put(vol_bin, md5_hex(content), content)
  /\ uploading' = uploading \cup {<<content, filename>>}
  /\ UNCHANGED <<vol_json, vol_zip, rq, carveVars, httpVars>>

\* lines 114-142: the content is carved and the metadata stored
UploadManifest(content, filename) ==
  /\ <<content, filename>> \in uploading
  /\ LET file_id == md5_hex(content)
         extracted_files == extract_binary_file(content)
     IN  vol_json' = Put(vol_json, file_id,
                         Metadata(file_id, filename, content, extracted_files))
  /\ up_resp' = [status |-> 200,
                 body   |-> [file_id  |-> md5_hex(content),
                             metadata |-> Metadata(md5_hex(content), filename,
                                                   content,
                                                   extract_binary_file(content))]]
  /\ uploading' = uploading \ {<<content, filename>>}
  /\ UNCHANGED <<vol_bin, vol_zip, rq, carveVars, dl_resp>>

(***************************************************************************)
(* create_zip and its progress_generator                                   *)
(***************************************************************************)
\* the events of the stream, lines 172, 178, 192, 198, 209, 212
InfoExtracting == [type |-> "info", message |-> "Extracting files from binary..."]
InfoFound(n) == [type |-> "info", message |-> [found |-> n]]
ProgressAdding(value, name) ==
  [type |-> "progress", value |-> value, message |-> [adding |-> name]]
ProgressComplete ==
  [type |-> "progress", value |-> 100, message |-> "ZIP creation complete!"]
Complete(file_id, size) == [type |-> "complete", file_id |-> file_id, size |-> size]
Error(message) == [type |-> "error", message |-> message]

\* trace entries: what the generator did, in order
Yielded(n) == [op |-> "yield", n |-> n]
Did(op) == [op |-> op, n |-> 0]

\* the generator yields event e
Yield(req, e) ==
  [req EXCEPT !.events = Append(@, e),
              !.trace  = Append(@, Yielded(Len(req.events) + 1))]

\* Raise with the complete event still sent after the error event
Raise_ThenComplete(req, message) ==
  [Yield(Yield(req, Error(message)), Complete(req.file_id, 0)) EXCEPT
     !.pc = "done"]

\* lines 211-212: an exception ends the stream with one error event
Raise(req, message) == [Yield(req, Error(message)) EXCEPT !.pc = "done"]

\* lines 156-158, 214-217: the request is parsed and the stream returned
CreateZip(r, file_id, selected_indices) ==
  /\ rq[r].pc = "idle"
  /\ rq' = [rq EXCEPT ![r] = [IdleRequest EXCEPT
                                !.pc = "start",
                                !.file_id = file_id,
                                !.selected_indices = selected_indices]]
  /\ UNCHANGED <<vol_bin, vol_json, vol_zip, uploading, carveVars, httpVars>>

\* Load with the first info event sent before the files are opened
Load_InfoFirst(r) ==
  /\ rq[r].pc = "start"
  /\ rq' = [rq EXCEPT ![r] =
       IF rq[r].file_id \notin DOMAIN vol_json
         THEN Raise(Yield(@, InfoExtracting), "No such file or directory: .json")
       ELSE IF rq[r].file_id \notin DOMAIN vol_bin
         THEN Raise(Yield(@, InfoExtracting), "No such file or directory: .bin")
       ELSE [Yield(@, InfoExtracting) EXCEPT
               !.metadata = vol_json[rq[r].file_id],
               !.bin_content = vol_bin[rq[r].file_id],
               !.pc = "extract"]]
  /\ UNCHANGED <<vol_bin, vol_json, vol_zip, uploading, carveVars, httpVars>>

\* lines 161-172: metadata and binary are loaded, then the first info event
Load(r) ==
  /\ rq[r].pc = "start"
  /\ rq' = [rq EXCEPT ![r] =
       IF rq[r].file_id \notin DOMAIN vol_json
         THEN Raise(@, "No such file or directory: .json")
       ELSE IF rq[r].file_id \notin DOMAIN vol_bin
         THEN Raise(@, "No such file or directory: .bin")
       ELSE [Yield(@, InfoExtracting) EXCEPT
               !.metadata = vol_json[rq[r].file_id],
               !.bin_content = vol_bin[rq[r].file_id],
               !.pc = "extract"]]
  /\ UNCHANGED <<vol_bin, vol_json, vol_zip, uploading, carveVars, httpVars>>

\* lines 173-185: the binary is carved again, then the second info event
Extract(r) ==
  /\ rq[r].pc = "extract"
  /\ LET extracted_files == extract_binary_file(rq[r].bin_content)
     IN  rq' = [rq EXCEPT ![r] =
           [Yield([@ EXCEPT !.trace = Append(@, Did("carve"))],
                  InfoFound(Len(extracted_files))) EXCEPT
              !.extracted_files = extracted_files,
              !.idx = 0,
              !.zip_buffer = <<>>,
              !.pc = "loop"]]
  /\ UNCHANGED <<vol_bin, vol_json, vol_zip, uploading, carveVars, httpVars>>

\* lines 187-193: one iteration of the loop up to its yield
Iterate(r) ==
  /\ rq[r].pc = "loop"
  /\ rq[r].idx < Len(rq[r].selected_indices)
  /\ LET file_idx    == rq[r].selected_indices[rq[r].idx + 1]
         total_files == Len(rq[r].selected_indices)
         n           == Len(rq[r].extracted_files)
     IN  rq' = [rq EXCEPT ![r] =
           IF file_idx < n
             THEN IF file_idx < -n
                    THEN Raise(@, "list index out of range")
                    ELSE LET file_info == PyIndex(rq[r].extracted_files, file_idx)
                         IN  [Yield(@, ProgressAdding(
                                         ProgressValue(rq[r].idx, total_files),
                                         file_info.name)) EXCEPT
                                !.file_info = file_info,
                                !.pc = "write"]
             ELSE [@ EXCEPT !.idx = @ + 1]]
  /\ UNCHANGED <<vol_bin, vol_json, vol_zip, uploading, carveVars, httpVars>>

\* Write that leaves out an item whose name is already in the archive
Write_SkipDuplicate(r) ==
  /\ rq[r].pc = "write"
  /\ rq' = [rq EXCEPT ![r] =
       [@ EXCEPT !.zip_buffer =
                    IF \E n \in 1..Len(@) : @[n].filename = rq[r].file_info.name
                      THEN @ ELSE Append(@, ZipEntry(rq[r].file_info)),
                 !.trace = Append(@, Did("write")),
                 !.idx = @ + 1,
                 !.pc = "loop"]]
  /\ UNCHANGED <<vol_bin, vol_json, vol_zip, uploading, carveVars, httpVars>>

\* line 196: the item announced last is written to the archive
Write(r) ==
  /\ rq[r].pc = "write"
  /\ rq' = [rq EXCEPT ![r] =
       [@ EXCEPT !.zip_buffer = Append(@, ZipEntry(rq[r].file_info)),
                 !.trace = Append(@, Did("write")),
                 !.idx = @ + 1,
                 !.pc = "loop"]]
  /\ UNCHANGED <<vol_bin, vol_json, vol_zip, uploading, carveVars, httpVars>>

\* Finish with the last percent computed by the per-item formula
Finish_ComputedPercent(r) ==
  /\ rq[r].pc = "loop"
  /\ rq[r].idx = Len(rq[r].selected_indices)
  /\ rq' = [rq EXCEPT ![r] =
       IF Len(rq[r].selected_indices) = 0
         THEN Raise(@, "division by zero")
         ELSE [Yield(@, ProgressComplete) EXCEPT !.pc = "persist"]]
  /\ UNCHANGED <<vol_bin, vol_json, vol_zip, uploading, carveVars, httpVars>>

\* lines 187, 197-198: the loop is over, the archive closed, progress 100
Finish(r) ==
  /\ rq[r].pc = "loop"
  /\ rq[r].idx = Len(rq[r].selected_indices)
  /\ rq' = [rq EXCEPT ![r] = [Yield(@, ProgressComplete) EXCEPT !.pc = "persist"]]
  /\ UNCHANGED <<vol_bin, vol_json, vol_zip, uploading, carveVars, httpVars>>

\* Persist with the complete event sent and the archive not stored
Persist_CompleteWithoutStore(r) ==
  /\ rq[r].pc = "persist"
  /\ rq' = [rq EXCEPT ![r] =
       [Yield([@ EXCEPT !.trace = Append(@, Did("persist"))],
              Complete(rq[r].file_id, ZipLen(rq[r].zip_buffer))) EXCEPT
          !.pc = "done"]]
  /\ UNCHANGED <<vol_bin, vol_json, vol_zip, uploading, carveVars, httpVars>>

\* lines 199-209: the archive is stored, then the complete event
Persist(r) ==
  /\ rq[r].pc = "persist"
  /\ vol_zip' = Put(vol_zip, rq[r].file_id, rq[r].zip_buffer)
  /\ rq' = [rq EXCEPT ![r] =
       [Yield([@ EXCEPT !.trace = Append(@, Did("persist"))],
              Complete(rq[r].file_id, ZipLen(rq[r].zip_buffer))) EXCEPT
          !.pc = "done"]]
  /\ UNCHANGED <<vol_bin, vol_json, uploading, carveVars, httpVars>>

\* lines 204, 211-212: opening the archive file for writing fails
PersistFails(r) ==
  /\ rq[r].pc = "persist"
  /\ rq' = [rq EXCEPT ![r] = Raise(@, "cannot open .zip for writing")]
  /\ UNCHANGED <<vol_bin, vol_json, vol_zip, uploading, carveVars, httpVars>>

\* the steps of the generator of client r
Step(r) ==
  \/ Load(r)
  \/ Extract(r)
  \/ Iterate(r)
  \/ Write(r)
  \/ Finish(r)
  \/ Persist(r)
  \/ PersistFails(r)

Init ==
  /\ input = <<>>
  /\ files = <<>>
  /\ cpc = "ready"
  /\ SysInit

Next ==
  \/ \E content \in SampleBlobs, filename \in FileNames :
        \/ UploadStore(content, filename)
        \/ UploadManifest(content, filename)
  \/ \E r \in Clients :
        \/ \E file_id \in FileIds, sel \in Selections : CreateZip(r, file_id, sel)
        \/ Step(r)

Spec == Init /\ [][Next]_vars

\* every started generator is driven to its end by the streaming response
FairSpec == Spec /\ \A r \in Clients : WF_vars(Step(r))

(***************************************************************************)
(* download_zip, and the service with all handlers and two clients         *)
(***************************************************************************)
\* lines 225-235: the stored archive is sent; a missing file fails the
\* response
Download(file_id) ==
  /\ dl_resp' = IF file_id \in DOMAIN vol_zip
                  THEN [status |-> 200, file_id |-> file_id,
                        body |-> vol_zip[file_id]]
                  ELSE [status |-> 500, file_id |-> file_id, body |-> <<>>]
  /\ UNCHANGED <<vol_bin, vol_json, vol_zip, uploading, rq, carveVars, up_resp>>

ServiceNext ==
  \/ \E content \in SampleBlobs, filename \in FileNames :
        \/ UploadStore(content, filename)
        \/ UploadManifest(content, filename)
  \/ UploadNoFile
  \/ \E r \in AllClients :
        \/ \E file_id \in FileIds, sel \in ConcSelections :
              CreateZip(r, file_id, sel)
        \/ Step(r)
  \/ \E file_id \in FileIds : Download(file_id)

ServiceSpec == Init /\ [][ServiceNext]_vars

(***************************************************************************)
(* Vocabulary of the properties of the carver.                             *)
(***************************************************************************)
Carved == cpc = "carved"

\* prefix p occurs in full at offset i of b
OccursAt(b, i, p) ==
  /\ i + Len(p) <= Len(b)
  /\ SubSeq(b, i + 1, i + Len(p)) = p

\* some catalog prefix occurs in full at offset j of b
AnyPrefixAt(b, j) ==
  \E k \in 1..Len(signatures) : OccursAt(b, j, signatures[k].sig)

\* record f was started by a match of catalog entry k
StartedBy(b, f, k) ==
  /\ f.name.stem = "extracted_"
  /\ f.type = signatures[k].ext
  /\ OccursAt(b, f.offset, signatures[k].sig)

\* the offsets after the matched prefix, inside the forward window of the
\* match at i, at which a catalog prefix occurs
NextStarts(b, i, L) ==
  {j \in (i + L)..(Min(i + MaxFileSpan, Len(b)) - 1) : AnyPrefixAt(b, j)}

SetMin(S) == CHOOSE x \in S : \A y \in S : x <= y

\* C1: every offset at which a catalog prefix occurs in full, the last
\* bytes of the input included, yields a record with that offset and the
\* prefix's type tag.  (Fails: the scan stops ScanMargin bytes early.)
C1_EveryFullMatchIsCarved ==
  Carved =>
    \A i \in 0..(Len(input) - 1) : \A k \in 1..Len(signatures) :
       OccursAt(input, i, signatures[k].sig) =>
          \E n \in 1..Len(files) :
             files[n].offset = i /\ files[n].type = signatures[k].ext

\* C2: a record started by a match at i with prefix length L ends at the
\* smallest offset j in [i+L, min(i+MaxFileSpan, len)) at which a catalog
\* prefix occurs, whenever there is one, whatever j - i is.  (Fails when
\* j - i equals DefaultChunk.)
C2_EndIsNextSignature ==
  Carved =>
    \A n \in 1..Len(files) : \A k \in 1..Len(signatures) :
       (/\ StartedBy(input, files[n], k)
        /\ NextStarts(input, files[n].offset, Len(signatures[k].sig)) # {})
       => files[n].offset + files[n].size =
            SetMin(NextStarts(input, files[n].offset, Len(signatures[k].sig)))

\* C5: every record lies inside the input and carries exactly the bytes of
\* its range; the call leaves the input as it was.
C5_RangeValidity ==
  [][(cpc = "ready" /\ cpc' = "carved") =>
       /\ input' = input
       /\ \A n \in 1..Len(files') :
            /\ 0 <= files'[n].offset
            /\ files'[n].offset + files'[n].size <= Len(input)
            /\ files'[n].size = Len(files'[n].data)
            /\ files'[n].data =
                 SubSeq(input, files'[n].offset + 1,
                        files'[n].offset + files'[n].size)]_vars

\* C5 witness: a carved record that stops short of the end of the input
C5_Witness ==
  /\ Carved
  /\ \E n \in 1..Len(files) :
       /\ files[n].name.stem = "extracted_"
       /\ files[n].offset > 0
       /\ files[n].offset + files[n].size < Len(input)

\* no catalog prefix occurs anywhere in the input
NoPrefixAnywhere(b) == \A j \in 0..(Len(b) - 1) : ~AnyPrefixAt(b, j)

\* C6: the carver never returns an empty list; when no catalog prefix
\* occurs anywhere it returns exactly the one record spanning the whole
\* input, tagged 'bin', named binary_data.bin.
C6_FallbackCompleteness ==
  Carved =>
    /\ Len(files) >= 1
    /\ NoPrefixAnywhere(input) =>
         /\ Len(files) = 1
         /\ files[1].offset = 0
         /\ files[1].size = Len(input)
         /\ files[1].data = input
         /\ files[1].type = "bin"
         /\ files[1].name = [stem |-> "binary_data", id |-> md5_hex8(<<>>),
                             ext |-> "bin"]

\* C6 witness: the empty input carved to one record of size 0
C6_Witness ==
  /\ Carved
  /\ input = <<>>
  /\ Len(files) = 1
  /\ files[1].size = 0

(***************************************************************************)
(* Vocabulary of the properties of the archive request.                    *)
(***************************************************************************)
IsTerminal(e) == e.type \in {"complete", "error"}

Last(sq) == sq[Len(sq)]

\* the request of client r is over and ended with the complete event
Completed(r) ==
  /\ rq[r].pc = "done"
  /\ Len(rq[r].events) >= 1
  /\ Last(rq[r].events).type = "complete"

\* the generator of client r has carved the stored binary
HasCarved(r) == \E n \in 1..Len(rq[r].trace) : rq[r].trace[n].op = "carve"

RECURSIVE SelectInRange(_, _)
\* the Selector: carved[k] for the indices k with 0 <= k < len(carved), in
\* the order supplied, duplicates kept
SelectInRange(carved, indices) ==
  IF indices = <<>> THEN <<>>
  ELSE LET k == Head(indices)
       IN  (IF 0 <= k /\ k < Len(carved) THEN <<carved[k + 1]>> ELSE <<>>)
           \o SelectInRange(carved, Tail(indices))

RECURSIVE Resolved(_, _)
\* the records a request's indices resolve to by list indexing, an index at
\* or beyond the end resolving to none
Resolved(carved, indices) ==
  IF indices = <<>> THEN <<>>
  ELSE LET k == Head(indices)
       IN  (IF k < Len(carved) THEN <<PyIndex(carved, k)>> ELSE <<>>)
           \o Resolved(carved, Tail(indices))

\* C3: the items written to the archive are exactly carved[k] for the
\* supplied indices k with 0 <= k < len(carved), in order, duplicates
\* kept; any other index selects nothing and causes no error event.
\* (Fails: a negative index selects from the end or raises IndexError.)
C3_OnlyInRangeIndicesSelect ==
  \A r \in Clients :
     /\ rq[r].pc = "persist" =>
          /\ Len(rq[r].zip_buffer) =
               Len(SelectInRange(rq[r].extracted_files, rq[r].selected_indices))
          /\ \A n \in 1..Len(rq[r].zip_buffer) :
               rq[r].zip_buffer[n] =
                 ZipEntry(SelectInRange(rq[r].extracted_files,
                                        rq[r].selected_indices)[n])
     /\ HasCarved(r) =>
          \A n \in 1..Len(rq[r].events) : rq[r].events[n].type # "error"

\* the events of a finished stream: exactly one terminal event, the last
OneTerminalLast(events) ==
  /\ Len(events) >= 1
  /\ IsTerminal(Last(events))
  /\ \A n \in 1..(Len(events) - 1) : ~IsTerminal(events[n])

\* C4: every archive request's event stream ends; when it has ended it
\* holds exactly one complete or one error event, never both, as its last
\* event; no terminal event occurs earlier and no event follows it.
C4_OneTerminalEvent ==
  /\ \A r \in Clients : (rq[r].pc = "start") ~> (rq[r].pc = "done")
  /\ [](\A r \in Clients :
          /\ rq[r].pc = "done" => OneTerminalLast(rq[r].events)
          /\ rq[r].pc # "done" =>
               \A n \in 1..Len(rq[r].events) : ~IsTerminal(rq[r].events[n]))
  /\ [][\A r \in Clients : rq[r].pc = "done" => rq'[r] = rq[r]]_vars

\* C4 witness: a stream that failed after progress had been reported
C4_Witness ==
  \E r \in Clients :
     /\ rq[r].pc = "done"
     /\ Len(rq[r].events) >= 3
     /\ Last(rq[r].events).type = "error"

\* C7: the manifest stored at upload and the list carved again from the
\* stored binary by an archive request agree: same length, and at every
\* index the same name, offset, size and type.
C7_ManifestMatchesRecarve ==
  \A r \in Clients :
     HasCarved(r) =>
        /\ rq[r].metadata = vol_json[rq[r].file_id]
        /\ Len(rq[r].metadata.files) = Len(rq[r].extracted_files)
        /\ \A i \in 1..Len(rq[r].extracted_files) :
             /\ rq[r].metadata.files[i].name = rq[r].extracted_files[i].name
             /\ rq[r].metadata.files[i].offset = rq[r].extracted_files[i].offset
             /\ rq[r].metadata.files[i].size = rq[r].extracted_files[i].size
             /\ rq[r].metadata.files[i].type = rq[r].extracted_files[i].type

\* C7 witness: a request that carved again a source with several records
\* while the other source was uploaded too
C7_Witness ==
  \E r \in Clients :
     /\ HasCarved(r)
     /\ Len(rq[r].extracted_files) = 2
     /\ Cardinality(DOMAIN vol_bin) = 2

\* C8: at the step that sends the complete event the archive stored under
\* the request's file_id has one entry per resolved selected record, in
\* selection order, with the record's name and, decompressed, the bytes of
\* its carved range; the size in the event is the stored archive's length.
C8_ArchiveHoldsSelection ==
  [][\A r \in Clients :
       (rq[r].pc = "persist" /\ Completed(r)') =>
          LET archive  == vol_zip'[rq[r].file_id]
              selected == Resolved(rq[r].extracted_files, rq[r].selected_indices)
          IN  /\ rq[r].file_id \in DOMAIN vol_zip'
              /\ Len(archive) = Len(selected)
              /\ \A n \in 1..Len(selected) :
                   /\ archive[n].filename = selected[n].name
                   /\ Inflate(archive[n].compressed) =
                        SubSeq(rq[r].bin_content, selected[n].offset + 1,
                               selected[n].offset + selected[n].size)
              /\ Last(rq'[r].events).size = ZipLen(archive)]_vars

\* C8 witness: a completed request whose archive holds the same record twice
C8_Witness ==
  \E r \in Clients :
     /\ Completed(r)
     /\ rq[r].file_id \in DOMAIN vol_zip
     /\ Len(vol_zip[rq[r].file_id]) = 2
     /\ rq[r].selected_indices[1] = rq[r].selected_indices[2]

RECURSIVE ItemSteps(_, _)
\* the trace of the items k..m: each announced, then written
ItemSteps(k, m) ==
  IF k > m THEN <<>>
  ELSE <<Yielded(2 + k), Did("write")>> \o ItemSteps(k + 1, m)

\* the trace of a request that wrote m items and completed
CompleteTrace(m) ==
  <<Yielded(1), Did("carve"), Yielded(2)>> \o ItemSteps(1, m)
    \o <<Yielded(m + 3), Did("persist"), Yielded(m + 4)>>

\* C9: in a request that does not fail: info, carve, info with the count,
\* then per written item in selection order one progress event before its
\* write, then one progress event with 100, then the archive is stored,
\* then complete; no progress event before the last write carries 100.
C9_EventOrder ==
  \A r \in Clients :
     Completed(r) =>
        LET events   == rq[r].events
            m        == Len(rq[r].zip_buffer)
            selected == Resolved(rq[r].extracted_files, rq[r].selected_indices)
        IN  /\ rq[r].trace = CompleteTrace(m)
            /\ Len(events) = m + 4
            /\ Len(selected) = m
            /\ events[1] = InfoExtracting
            /\ events[2] = InfoFound(Len(rq[r].extracted_files))
            /\ \A k \in 1..m :
                 /\ events[2 + k].type = "progress"
                 /\ events[2 + k].value < 100
                 /\ events[2 + k].message = [adding |-> selected[k].name]
                 /\ rq[r].zip_buffer[k] = ZipEntry(selected[k])
            /\ events[m + 3] = ProgressComplete
            /\ events[m + 4].type = "complete"

\* C9 witness: a completed request that wrote two items
C9_Witness ==
  \E r \in Clients :
     /\ Completed(r)
     /\ Len(rq[r].zip_buffer) = 2
     /\ Len(rq[r].events) = 6

\* client r is about to load a source whose metadata or binary is missing
LoadsUnknownSource(r) ==
  /\ rq[r].pc = "start"
  /\ \/ rq[r].file_id \notin DOMAIN vol_json
     \/ rq[r].file_id \notin DOMAIN vol_bin

ItemEvents(events) == SubSeq(events, 3, Len(events) - 2)

\* C11: the k-th per-item progress event (k from 0 over the items actually
\* selected, n their number) carries floor(k * 100 / n): the first carries
\* 0, the values do not decrease and lie in 0..99, also when the supplied
\* list holds out-of-range indices.  (Fails: the percent is computed from
\* the position in the supplied list and the length of the supplied list.)
C11_PercentOverSelectedItems ==
  \A r \in Clients :
     Completed(r) =>
        LET items == ItemEvents(rq[r].events)
            n     == Len(Resolved(rq[r].extracted_files, rq[r].selected_indices))
        IN  /\ Len(items) = n
            /\ \A k \in 1..n :
                 /\ items[k].value = ((k - 1) * 100) \div n
                 /\ items[k].value \in 0..99
            /\ \A k \in 1..(n - 1) : items[k].value <= items[k + 1].value

\* the selection of client r, carved list known, resolves to no record:
\* it is empty or all its indices lie at or beyond the end of the list
SelectsNothing(r) ==
  /\ HasCarved(r)
  /\ \A n \in 1..Len(rq[r].selected_indices) :
        rq[r].selected_indices[n] >= Len(rq[r].extracted_files)

\* C12: a request on a stored source whose selection is empty or resolves
\* to no record divides nothing and sends no per-item progress event and
\* no error event of its own: the events are the two info events, progress
\* 100 and complete, and the stored archive has no entry.  Only a failure
\* to open the archive file for writing can end it with an error instead.
C12_EmptySelection ==
  \A r \in Clients :
     SelectsNothing(r) =>
        LET events == rq[r].events
            found  == InfoFound(Len(rq[r].extracted_files))
        IN  /\ rq[r].pc \in {"loop", "persist", "done"}
            /\ rq[r].zip_buffer = <<>>
            /\ rq[r].pc = "loop" => events = <<InfoExtracting, found>>
            /\ rq[r].pc = "persist" =>
                 events = <<InfoExtracting, found, ProgressComplete>>
            /\ rq[r].pc = "done" =>
                 \/ /\ events = <<InfoExtracting, found, ProgressComplete,
                                  Complete(rq[r].file_id, ZipLen(<<>>))>>
                    /\ rq[r].file_id \in DOMAIN vol_zip
                    /\ vol_zip[rq[r].file_id] = <<>>
                 \/ events = <<InfoExtracting, found, ProgressComplete,
                               Error("cannot open .zip for writing")>>

\* C12 witness: a completed request with the empty selection
C12_Witness ==
  \E r \in Clients :
     /\ Completed(r)
     /\ rq[r].selected_indices = <<>>
     /\ vol_zip[rq[r].file_id] = <<>>

(***************************************************************************)
(* Further properties of the carver.                                       *)
(***************************************************************************)
\* record f was started by a signature match (it is not the fallback)
Matched(f) == f.name.stem = "extracted_"

\* C13: the name of a signature-matched record depends only on the first
\* bytes of its own range and its type: two records with equal data and
\* equal type have equal names.  (Fails: the hashed window
\* file_content[i:i+HashWindow] reaches past the end of a shorter record.)
C13_NameFromOwnBytes ==
  Carved =>
    \A n1, n2 \in 1..Len(files) :
       (/\ Matched(files[n1]) /\ Matched(files[n2])
        /\ files[n1].data = files[n2].data
        /\ files[n1].type = files[n2].type)
       => files[n1].name = files[n2].name

\* C14: a record started by a match at i with prefix length L, with no
\* catalog prefix at any offset in [i+L, min(i+MaxFileSpan, len)), ends at
\* min(i + FallbackSize, len).
C14_FallbackEnd ==
  Carved =>
    \A n \in 1..Len(files) : \A k \in 1..Len(signatures) :
       (/\ StartedBy(input, files[n], k)
        /\ NextStarts(input, files[n].offset, Len(signatures[k].sig)) = {})
       => files[n].offset + files[n].size =
            Min(files[n].offset + FallbackSize, Len(input))

\* C14 witness: such a record ending at the fallback size before the end of
\* the input
C14_Witness ==
  /\ Carved
  /\ \E n \in 1..Len(files) : \E k \in 1..Len(signatures) :
       /\ StartedBy(input, files[n], k)
       /\ NextStarts(input, files[n].offset, Len(signatures[k].sig)) = {}
       /\ files[n].size = FallbackSize
       /\ files[n].offset + FallbackSize < Len(input)

\* C16 as stated: every record has size > 0.  (Fails: the empty input gives
\* the fallback record of size 0.)
C16_SizePositive ==
  Carved => \A n \in 1..Len(files) : files[n].size > 0

\* C16 amended: every record has size > 0, except the single fallback
\* record of the empty input, whose size is 0.
C16_SizePositiveUnlessEmptyInput ==
  Carved =>
    \A n \in 1..Len(files) :
       \/ files[n].size > 0
       \/ /\ input = <<>>
          /\ files = <<FallbackRecord(<<>>)>>
          /\ files[n].size = 0

\* C16 witness: a matched record that ends right after its prefix, at the
\* next signature
C16_Witness ==
  /\ Carved
  /\ \E n \in 1..Len(files) : \E k \in 1..Len(signatures) :
       /\ StartedBy(input, files[n], k)
       /\ files[n].size = Len(signatures[k].sig)

\* no catalog prefix is an initial segment of another entry's prefix
PrefixFree(catalog) ==
  \A k1, k2 \in 1..Len(catalog) :
     (k1 # k2 /\ Len(catalog[k1].sig) <= Len(catalog[k2].sig))
     => SubSeq(catalog[k2].sig, 1, Len(catalog[k1].sig)) # catalog[k1].sig

\* C17: the record offsets are strictly increasing, so no two records
\* share an offset; with this catalog at most one prefix matches at an
\* offset.
C17_OffsetsStrictlyIncreasing ==
  Carved =>
    /\ PrefixFree(signatures)
    /\ \A n \in 1..(Len(files) - 1) : files[n].offset < files[n + 1].offset

\* C17 witness: an input carved to records at adjacent offsets and more
C17_Witness ==
  /\ Carved
  /\ Len(files) >= 3
  /\ files[2].offset = files[1].offset + 1

\* C18 as stated: consecutive records do not overlap.  (Fails: a prefix
\* that starts inside the previous match's prefix starts a record inside
\* the previous record, as in "BMZ".)
C18_NoOverlap ==
  Carved =>
    \A n \in 1..(Len(files) - 1) :
       files[n].offset + files[n].size <= files[n + 1].offset

\* C18 amended: consecutive records r then r' overlap only when r' starts
\* inside r's matched prefix or exactly DefaultChunk bytes after r's start;
\* in every other case r.offset + r.size <= r'.offset.
C18_OverlapOnlyInPrefixOrAtDefault ==
  Carved =>
    \A n \in 1..(Len(files) - 1) : \A k \in 1..Len(signatures) :
       (/\ StartedBy(input, files[n], k)
        /\ files[n + 1].offset >= files[n].offset + Len(signatures[k].sig)
        /\ files[n + 1].offset # files[n].offset + DefaultChunk)
       => files[n].offset + files[n].size <= files[n + 1].offset

\* C18 witness: a record that ends where the next one starts, and a record
\* that overlaps the next one
C18_Witness ==
  /\ Carved
  /\ \E n \in 1..(Len(files) - 1) :
       files[n].offset + files[n].size = files[n + 1].offset
  /\ \E n \in 1..(Len(files) - 1) :
       files[n].offset + files[n].size > files[n + 1].offset

(***************************************************************************)
(* Properties of the service: upload without file, download.               *)
(***************************************************************************)
\* C15: an upload request without a file is answered with an error before
\* any processing: no .bin, .json or .zip file is written or overwritten
\* and the response carries no file_id.
C15_NoFileNoEffect ==
  [][(up_resp' # up_resp /\ up_resp'.status = 400) =>
       /\ UNCHANGED <<vol_bin, vol_json, vol_zip, uploading>>
       /\ "error" \in DOMAIN up_resp'.body
       /\ "file_id" \notin DOMAIN up_resp'.body]_vars

\* C15 witness: the error response sent while the store holds an upload and
\* an archive
C15_Witness ==
  /\ up_resp.status = 400
  /\ DOMAIN vol_bin # {}
  /\ DOMAIN vol_json # {}
  /\ DOMAIN vol_zip # {}

\* the archive of the records the selection of client r resolves to
ArchiveOf(r) ==
  LET selected == Resolved(rq[r].extracted_files, rq[r].selected_indices)
  IN  [n \in 1..Len(selected) |-> ZipEntry(selected[n])]

\* the clients whose request for file_id has sent its complete event
CompletedFor(file_id) ==
  {r \in AllClients : Completed(r) /\ rq[r].file_id = file_id}

\* the archive was stored before the complete event of client r was sent
StoredBeforeComplete(r) ==
  /\ rq[r].file_id \in DOMAIN vol_zip
  /\ Len(rq[r].trace) >= 2
  /\ rq[r].trace[Len(rq[r].trace) - 1] = Did("persist")

\* C19 as stated: a download after a request for the source has sent
\* complete with byte_size returns an archive of byte_size bytes holding
\* that request's items, under every interleaving, also with a concurrent
\* request for the same source with another selection.  (Fails: the
\* archive of the request that stored last replaces the other's.)
C19_DownloadIsOwnArchive ==
  [][dl_resp' # dl_resp =>
       \A r \in CompletedFor(dl_resp'.file_id) :
          /\ StoredBeforeComplete(r)
          /\ dl_resp'.status = 200
          /\ dl_resp'.body = ArchiveOf(r)
          /\ ZipLen(dl_resp'.body) = Last(rq[r].events).size]_vars

\* C19 amended: the archive is stored before complete is sent, and a
\* download after a complete for the source returns the archive and the
\* byte_size of one of the requests for that source that have sent
\* complete; it is the request's own when no other request for the source
\* has sent complete.
C19_DownloadIsACompletedArchive ==
  [][dl_resp' # dl_resp =>
       LET done == CompletedFor(dl_resp'.file_id)
       IN  /\ \A r \in done : StoredBeforeComplete(r)
           /\ done # {} =>
                /\ dl_resp'.status = 200
                /\ \E r \in done :
                     /\ dl_resp'.body = ArchiveOf(r)
                     /\ ZipLen(dl_resp'.body) = Last(rq[r].events).size]_vars

\* C19 witness: a download answered with an archive after both clients
\* completed requests for the source with different selections
C19_Witness ==
  /\ dl_resp.status = 200
  /\ CompletedFor(dl_resp.file_id) = AllClients
  /\ rq["c1"].zip_buffer # rq["c2"].zip_buffer
  /\ dl_resp.body = vol_zip[dl_resp.file_id]

====
